---- MODULE Spec2Model ----
(***************************************************************************)
(* homieflow: the per-user Homie event loop (src/src/homie/mod.rs) and the *)
(* RateLimiter that debounces its request-sync calls                       *)
(* (src/src/ratelimit.rs) are specification Spec; the pollers of several   *)
(* users around the one HomeGraphClient (src/src/homegraph.rs) are         *)
(* SpecUsers; the sync / query / execute fulfillment handlers              *)
(* (src/src/fulfillment) are SpecFulfil.  Each specification leaves the    *)
(* variables of the other two at rest.                                     *)
(*                                                                         *)
(* Strings that the code splits or joins (device ids, node ids, composite  *)
(* addresses) are sequences of one-character strings.                      *)
(*                                                                         *)
(* Time is a discrete clock of TickSeconds per Tick.  Timers are kept as   *)
(* remaining / elapsed ticks, saturating at the period.                    *)
(*                                                                         *)
(* The limiter's background task is a tokio task.  tokio polls a task on a *)
(* worker thread; JoinHandle::abort only marks the task cancelled, and a   *)
(* poll that is executing on another worker runs on to its next pending    *)
(* .await before the task is dropped.  `polling` is that "being polled"    *)
(* bit.  tokio::sync::Notify holds at most one permit; notify_one hands    *)
(* the notification to a registered waiter if there is one and stores the  *)
(* permit otherwise.                                                       *)
(***************************************************************************)
EXTENDS Integers, Sequences, FiniteSets, TLC

\* ---------------------------------------------------------------- bounds
\* execute() calls (structural events) per behaviour
MaxCalls == 3
\* report_state calls per behaviour
MaxReports == 2
\* resolution of the clock: seconds per Tick
TickSeconds == 5
\* the user's reconnect-interval-seconds setting
ReconnectSeconds == 5

\* ------------------------------------------------------------- constants
\* const REQUEST_SYNC_RATE_LIMIT: Duration = Duration::from_secs(10)
REQUEST_SYNC_RATE_LIMIT == 10
\* the period handed to RateLimiter::new, in ticks
Period == REQUEST_SYNC_RATE_LIMIT \div TickSeconds
\* reconnect_interval, in ticks
ReconnectInterval == ReconnectSeconds \div TickSeconds

\* Option<T>: None is the empty sequence, Some(v) the one-element sequence
None == <<>>
Some(v) == <<v>>

\* ----------------------------------------------------------- device tree
DeviceIds == {<<"d", "1">>, <<"d", "2">>}
NodeIds == {<<"n", "1">>, <<"n", "2">>}

\* homie_controller::Property, reduced to what the state conversion reads;
\* a numeric value or range is kept as parsed by Property::value / range
Prop(dt, fmt, val) == [datatype |-> dt, format |-> fmt, value |-> val]

\* a light: on = true, brightness 13 in 10:20
NodeLight ==
    [properties |-> [id \in {"on", "brightness"} |->
        IF id = "on" THEN Prop("boolean", None, Some("true"))
                     ELSE Prop("integer", Some(<<10, 20>>), Some(13))]]
\* a node with no recognized property
NodeOther ==
    [properties |-> [id \in {"foo"} |-> Prop("string", None, Some("x"))]]
\* a switch whose `on` value was never published
NodeNoValue ==
    [properties |-> [id \in {"on"} |-> Prop("boolean", None, None)]]

\* a dimmer whose brightness range is the single value 5:5
NodeFixedRange ==
    [properties |-> [id \in {"brightness"} |->
        Prop("integer", Some(<<5, 5>>), Some(5))]]

NodeChoices == {NodeLight, NodeOther, NodeNoValue, NodeFixedRange}
DeviceStates == {"ready", "sleeping", "lost"}

\* controller.devices(): one device d1 with one node n1
DeviceTree(st, node) ==
    [d \in {<<"d", "1">>} |->
        [state |-> st, nodes |-> [n \in {<<"n", "1">>} |-> node]]]

\* the device trees of the event loop: every node on a ready device, and
\* the light on a sleeping and on a lost one
DeviceTrees ==
    {DeviceTree("ready", node) : node \in NodeChoices}
        \cup {DeviceTree("sleeping", NodeLight), DeviceTree("lost", NodeLight)}

\* ----------------------------------------------------------------- events
\* homie_controller::Event as matched by handle_homie_event
StructuralTypes == {"DeviceUpdated", "NodeUpdated", "PropertyUpdated"}
Events ==
    [type : StructuralTypes, has_required_attributes : BOOLEAN]
    \cup [type : {"PropertyValueChanged"}, device_id : DeviceIds,
          node_id : NodeIds, fresh : BOOLEAN]
    \cup [type : {"Other"}]

VARIABLES
    \* RateLimiter: Notify permits, position of callback_run_loop, whether
    \* a worker is polling it, remaining sleep, whether it was dropped
    permits, lpc, polling, sleepLeft, dropped,
    \* homie_poller: position, the report_state call in flight, remaining
    \* reconnect sleep
    ppc, report, backoffLeft,
    \* environment: the device tree and Option<HomeGraphClient>
    devices, hasClient,
    \* observation: counts of execute() calls, action runs, actions in
    \* flight, time since the last run completed, time since the last
    \* cloud request_sync call
    calls, runs, inFlight, sinceDone, sinceSync,
    \* observation: execute() calls in the current run+sleep window and in
    \* the previous one, a signal given while idle and not yet served,
    \* runs at the time of the drop
    windowCalls, lastWindowCalls, idleSignal, runsAtDrop,
    \* observation: events seen by class, report_state calls made
    structSeen, freshSeen, reports,
    \* observation: time since the first execute(), all calls within P of
    \* it, outcome of the last poll, ids of the last fresh value change of
    \* a known node
    sinceFirst, allWithin, lastPoll, lastFresh,
    \* observation: report_state calls started and not yet returned
    reportsInFlight,
    \* several users: holder of the HomeGraphClient mutex, position of
    \* each user's poller and of each user's request_sync task, each
    \* limiter's Notify permit
    clientLock, upc, spc, syncPermit,
    \* fulfillment: the user's device tree, whether the user has a
    \* controller, the last request, its response payload, and the
    \* controller.set calls it made
    fdevices, hasController, request, response, writes,
    \* codec: the property a conversion is applied to, the last conversion
    \* called with its argument, and how that call ended
    cproperty, ccall, cresult

limiterVars == <<permits, lpc, polling, sleepLeft, dropped>>
pollerVars == <<ppc, report, backoffLeft>>
envVars == <<devices, hasClient>>
obsVars == <<calls, runs, inFlight, sinceDone, sinceSync, windowCalls,
             lastWindowCalls, idleSignal, runsAtDrop, structSeen, freshSeen,
             reports, sinceFirst, allWithin, lastPoll, lastFresh,
             reportsInFlight>>
loopVars == <<permits, lpc, polling, sleepLeft, dropped, ppc, report,
              backoffLeft, devices, hasClient, calls, runs, inFlight,
              sinceDone, sinceSync, windowCalls, lastWindowCalls, idleSignal,
              runsAtDrop, structSeen, freshSeen, reports, sinceFirst,
              allWithin, lastPoll, lastFresh, reportsInFlight>>
usersVars == <<clientLock, upc, spc, syncPermit>>
fulfilVars == <<fdevices, hasController, request, response, writes>>
codecVars == <<cproperty, ccall, cresult>>
vars == <<loopVars, usersVars, fulfilVars, codecVars>>

\* --------------------------------------------------------------- at rest
MaxUsers == 2
Users == 1..MaxUsers

\* no user's poller has taken an event yet
UsersAtRest ==
    /\ clientLock = None
    /\ upc = [u \in Users |-> "poll"]
    /\ spc = [u \in Users |-> "idle"]
    /\ syncPermit = [u \in Users |-> FALSE]

\* no fulfillment request has been handled yet
RequestsAtRest ==
    /\ request = None
    /\ response = None
    /\ writes = <<>>

\* a user without controller, no request handled
\* no conversion called
NoResult == [panicked |-> FALSE, value |-> None]
CodecAtRest == cproperty = None /\ ccall = None /\ cresult = NoResult

FulfilAtRest ==
    /\ fdevices = <<>>
    /\ hasController = FALSE
    /\ RequestsAtRest

\* ------------------------------------------------------- state conversion
\* Rust integer division truncates toward zero
TruncDiv(a, b) ==
    IF (a >= 0) = (b > 0) THEN (IF a >= 0 THEN a ELSE -a) \div (IF b > 0 THEN b ELSE -b)
    ELSE -((IF a >= 0 THEN a ELSE -a) \div (IF b > 0 THEN b ELSE -b))

\* variant: only the upper end is capped
CapUpperOnly(value, min, max) == IF value > max THEN max ELSE value

cap(value, min, max) ==
    IF value < min THEN min ELSE IF value > max THEN max ELSE value

\* Property::value::<bool>()
value_bool(p) ==
    IF p.datatype = "boolean" /\ p.value # None /\ p.value[1] \in {"true", "false"}
    THEN Some(p.value[1] = "true") ELSE None

\* property_value_to_percentage, Integer arm: `/ (end - start)` is an i64
\* division, which panics when the divisor is zero
percentage_panics(p) ==
    /\ p.datatype = "integer" /\ p.value # None /\ p.format # None
    /\ p.format[1][2] - p.format[1][1] = 0

\* property_value_to_percentage, Integer arm, where it returns
property_value_to_percentage(p) ==
    IF p.datatype = "integer" /\ p.value # None /\ p.format # None
    THEN LET v == p.value[1]
             lo == p.format[1][1]
             hi == p.format[1][2]
         IN Some(cap(TruncDiv((v - lo) * 100, hi - lo), 0, 100))
    ELSE None

\* property_value_to_number, Integer arm
property_value_to_number(p) ==
    IF p.datatype = "integer" /\ p.value # None THEN Some(p.value[1]) ELSE None

\* property_value_to_color: spectrum RGB as one integer, HSV with
\* saturation and value as fractions <<numerator, 100>>
property_value_to_color(p) ==
    IF p.datatype = "color" /\ p.value # None /\ p.format = Some("rgb")
    THEN LET c == p.value[1]
         IN Some([spectrumRgb |-> c[1] * 65536 + c[2] * 256 + c[3]])
    ELSE IF p.datatype = "color" /\ p.value # None /\ p.format = Some("hsv")
    THEN LET c == p.value[1]
         IN Some([hue |-> c[1], saturation |-> <<c[2], 100>>,
                  value |-> <<c[3], 100>>])
    ELSE None

NoFields == [k \in {} |-> 0]
\* one serialized field; a None is skipped
Field(key, opt) == IF opt = None THEN NoFields ELSE (key :> opt[1])
\* node.properties.get(id)
Has(node, id) == id \in DOMAIN node.properties

\* homie_node_to_state(node, online) followed by serialization to the
\* report payload: `online` is always present
homie_node_to_state(node, online) ==
    ("online" :> online)
    @@ Field("on", IF Has(node, "on")
                   THEN value_bool(node.properties["on"]) ELSE None)
    @@ Field("brightness",
             IF Has(node, "brightness")
             THEN property_value_to_percentage(node.properties["brightness"])
             ELSE None)
    @@ Field("color", IF Has(node, "color")
                      THEN property_value_to_color(node.properties["color"])
                      ELSE None)
    @@ Field("thermostatTemperatureAmbient",
             IF Has(node, "temperature")
             THEN property_value_to_number(node.properties["temperature"])
             ELSE None)
    @@ Field("thermostatHumidityAmbient",
             IF Has(node, "humidity")
             THEN property_value_to_number(node.properties["humidity"])
             ELSE None)

\* get_homie_node(devices, device_id, node_id)
get_homie_node(devs, device_id, node_id) ==
    IF device_id \in DOMAIN devs /\ node_id \in DOMAIN devs[device_id].nodes
    THEN Some(<<devs[device_id], devs[device_id].nodes[node_id]>>)
    ELSE None

\* variant: the report is skipped when the payload carries nothing but
\* `online`
NodeStateChangedSkipEmpty(devs, device_id, node_id) ==
    LET found == get_homie_node(devs, device_id, node_id) IN
    IF found # None
    THEN LET device == found[1][1]
             node == found[1][2]
             online == device.state \in {"ready", "sleeping"}
             state == homie_node_to_state(node, online)
         IN IF DOMAIN state = {"online"} THEN None
            ELSE Some([device_id |-> device_id \o <<"/">> \o node_id,
                       state |-> state])
    ELSE None

\* variant: every report says the device is online
NodeStateChangedOnlineTrue(devs, device_id, node_id) ==
    LET found == get_homie_node(devs, device_id, node_id) IN
    IF found # None
    THEN Some([device_id |-> device_id \o <<"/">> \o node_id,
               state |-> homie_node_to_state(found[1][2], TRUE)])
    ELSE None

\* node_state_changed: the report_state call it makes, if any
node_state_changed(devs, device_id, node_id) ==
    LET found == get_homie_node(devs, device_id, node_id) IN
    IF found # None
    THEN LET device == found[1][1]
             node == found[1][2]
             online == device.state \in {"ready", "sleeping"}
         IN Some([device_id |-> device_id \o <<"/">> \o node_id,
                  state |-> homie_node_to_state(node, online)])
    ELSE None

\* node_state_changed unwinds: the node exists and its brightness
\* conversion divides by zero
node_state_panics(devs, device_id, node_id) ==
    LET found == get_homie_node(devs, device_id, node_id) IN
    /\ found # None
    /\ Has(found[1][2], "brightness")
    /\ percentage_panics(found[1][2].properties["brightness"])

\* variant: the fresh flag of a value change is not looked at
ClassifyAnyValue(ev) ==
    IF ev.type \in StructuralTypes /\ ev.has_required_attributes THEN "sync"
    ELSE IF ev.type = "PropertyValueChanged" THEN "report"
    ELSE "log"

\* variant: has_required_attributes is not looked at
ClassifyAnyUpdate(ev) ==
    IF ev.type \in StructuralTypes THEN "sync"
    ELSE IF ev.type = "PropertyValueChanged" /\ ev.fresh THEN "report"
    ELSE "log"

\* the match of handle_homie_event: which arm the event takes
Classify(ev) ==
    IF ev.type \in StructuralTypes /\ ev.has_required_attributes THEN "sync"
    ELSE IF ev.type = "PropertyValueChanged" /\ ev.fresh THEN "report"
    ELSE "log"

\* handle_homie_event unwinds while handling the event
handle_panics(devs, client, ev) ==
    /\ Classify(ev) = "report"
    /\ client
    /\ node_state_panics(devs, ev.device_id, ev.node_id)

\* handle_homie_event, where it returns: what the event makes the loop do
handle_homie_event(devs, client, ev) ==
    LET arm == Classify(ev) IN
    [execute |-> arm = "sync",
     report |-> IF arm = "report" /\ client
                THEN node_state_changed(devs, ev.device_id, ev.node_id)
                ELSE None]

\* variant: the report is sent from a spawned task, the loop polls on
PollerNextSpawnReport(effect) == "poll"

\* variant: execute() awaits the debounced action
PollerNextAwaitSync(effect) ==
    IF effect.execute THEN "syncing"
    ELSE IF effect.report # None THEN "reporting" ELSE "poll"

\* where homie_poller is after handling: awaiting report_state, or back
\* at controller.poll
PollerNext(effect) == IF effect.report # None THEN "reporting" ELSE "poll"

\* ------------------------------------------------------------ RateLimiter
\* variant: a counting semaphore, every call adds a permit
NotifyOneCounting(pc, p) ==
    IF pc = "waiting" THEN [lpc |-> "notified", permits |-> p]
    ELSE [lpc |-> pc, permits |-> p + 1]

\* variant: the permit is stored but a registered waiter is not woken
NotifyOneNoWake(pc, p) == [lpc |-> pc, permits |-> 1]

\* Notify::notify_one as called by execute(): wake the registered waiter,
\* or store the (single) permit
notify_one(pc, p) ==
    IF pc = "waiting" THEN [lpc |-> "notified", permits |-> p]
    ELSE [lpc |-> pc, permits |-> 1]

\* variant: every poll error is followed by the reconnect sleep
AfterPollErrorAlwaysSleep(io) == "backoff"

\* the Err arm of homie_poller: the reconnect sleep follows only
\* PollError::Connection(ConnectionError::Io(_))
AfterPollError(io) == IF io THEN "backoff" ELSE "poll"

\* variant: the sleep returns at once
SleepNone(period) == 0

\* time::sleep(period): the time left when the sleep starts
sleep(period) == period

\* a poll that ends at a pending .await: the task is dropped there if it
\* was aborted meanwhile
Yield(pc) == IF dropped THEN "aborted" ELSE pc

\* an elapsed-time observation after one more tick (-1: nothing to time)
Sat(t) == IF t < 0 THEN t ELSE IF t < Period THEN t + 1 ELSE t

\* ------------------------------------------------------------------- Init
InitLoop ==
    /\ permits = 0
    /\ lpc = "start"
    /\ polling = FALSE
    /\ sleepLeft = 0
    /\ dropped = FALSE
    /\ ppc = "poll"
    /\ report = None
    /\ backoffLeft = 0
    /\ devices \in DeviceTrees
    /\ hasClient \in BOOLEAN
    /\ calls = 0 /\ runs = 0 /\ inFlight = 0
    /\ sinceDone = -1 /\ sinceSync = -1
    /\ windowCalls = 0 /\ lastWindowCalls = 0
    /\ idleSignal = FALSE
    /\ runsAtDrop = 0
    /\ structSeen = 0 /\ freshSeen = 0 /\ reports = 0
    /\ sinceFirst = -1 /\ allWithin = TRUE
    /\ lastPoll = "none"
    /\ lastFresh = None
    /\ reportsInFlight = 0

Init == InitLoop /\ UsersAtRest /\ FulfilAtRest /\ CodecAtRest

\* ----------------------------------------------------------- observations
\* the event is a structural update that gained its required attributes
IsStructural(ev) ==
    /\ ev.type \in {"DeviceUpdated", "NodeUpdated", "PropertyUpdated"}
    /\ ev.has_required_attributes = TRUE

\* the event is a fresh value change of a node that exists, with a client
IsFreshKnown(ev) ==
    /\ ev.type = "PropertyValueChanged"
    /\ ev.fresh = TRUE
    /\ hasClient
    /\ ev.device_id \in DOMAIN devices
    /\ ev.node_id \in DOMAIN devices[ev.device_id].nodes

\* the event as the observer classes it
EventClass(ev) ==
    IF IsStructural(ev) THEN "structural"
    ELSE IF ev.type = "PropertyValueChanged" /\ ev.fresh = TRUE THEN "fresh"
    ELSE "quiet"

\* the limiter task is idle: waiting for a signal, none pending
Idle == lpc \in {"start", "waiting"} /\ permits = 0

InWindow == lpc \in {"running", "inRpc", "sleeping"}

\* an execute() call seen by the observer
ObserveExecute ==
    /\ calls' = calls + 1
    /\ windowCalls' = IF InWindow THEN windowCalls + 1 ELSE windowCalls
    /\ idleSignal' = (idleSignal \/ Idle)
    /\ sinceFirst' = IF sinceFirst < 0 THEN 0 ELSE sinceFirst
    /\ allWithin' = (allWithin /\ sinceFirst < Period)

\* ------------------------------------------------------------ homie_poller
\* the RateLimiter is dropped: Drop::drop calls handle.abort()
AbortLimiter ==
    /\ dropped' = TRUE
    /\ runsAtDrop' = runs
    /\ IF polling
       THEN UNCHANGED <<lpc, inFlight>>
       ELSE lpc' = "aborted" /\ inFlight' = 0

\* controller.poll returned Ok(Some(ev)); handle_homie_event runs up to its
\* first pending .await, or unwinds: a panic ends the task and drops its
\* locals, the RateLimiter among them
PollEvent(ev) ==
    /\ UNCHANGED <<usersVars, fulfilVars, codecVars>>
    /\ ppc = "poll"
    /\ IsStructural(ev) => structSeen < MaxCalls
    /\ IsFreshKnown(ev) => freshSeen < MaxReports
    /\ IF handle_panics(devices, hasClient, ev)
       THEN /\ ppc' = "panicked"
            /\ report' = None
            /\ AbortLimiter
            /\ UNCHANGED <<permits, calls, windowCalls, idleSignal,
                           sinceFirst, allWithin, reports, reportsInFlight>>
       ELSE LET effect == handle_homie_event(devices, hasClient, ev)
                n == notify_one(lpc, permits)
            IN /\ effect.execute => calls < MaxCalls
               /\ effect.report # None => reports < MaxReports
               /\ IF effect.execute
                  THEN /\ lpc' = n.lpc
                       /\ permits' = n.permits
                       /\ ObserveExecute
                  ELSE UNCHANGED <<lpc, permits, calls, windowCalls,
                                   idleSignal, sinceFirst, allWithin>>
               /\ report' = effect.report
               /\ reports' = IF effect.report # None
                             THEN reports + 1 ELSE reports
               /\ reportsInFlight' = IF effect.report # None
                                     THEN reportsInFlight + 1
                                     ELSE reportsInFlight
               /\ ppc' = PollerNext(effect)
               /\ UNCHANGED <<dropped, runsAtDrop, inFlight>>
    /\ structSeen' = IF IsStructural(ev) THEN structSeen + 1 ELSE structSeen
    /\ freshSeen' = IF IsFreshKnown(ev) THEN freshSeen + 1 ELSE freshSeen
    /\ lastPoll' = EventClass(ev)
    /\ lastFresh' = IF IsFreshKnown(ev)
                    THEN Some(<<ev.device_id, ev.node_id>>) ELSE lastFresh
    /\ UNCHANGED <<polling, sleepLeft, backoffLeft, devices, hasClient, runs,
                   sinceDone, sinceSync, lastWindowCalls>>

\* controller.poll returned Ok(None)
PollNone ==
    /\ UNCHANGED <<usersVars, fulfilVars, codecVars>>
    /\ ppc = "poll"
    /\ lastPoll' = "empty"
    /\ UNCHANGED <<limiterVars, pollerVars, envVars, calls, runs, inFlight,
                   sinceDone, sinceSync, windowCalls, lastWindowCalls,
                   idleSignal, runsAtDrop, structSeen, freshSeen, reports,
                   sinceFirst, allWithin, lastFresh, reportsInFlight>>

\* controller.poll returned Err(e): a connection-level I/O error is
\* followed by sleep(reconnect_interval), any other error by the next poll
PollError(io) ==
    /\ UNCHANGED <<usersVars, fulfilVars, codecVars>>
    /\ ppc = "poll"
    /\ ppc' = AfterPollError(io)
    /\ backoffLeft' = IF AfterPollError(io) = "backoff"
                      THEN sleep(ReconnectInterval) ELSE backoffLeft
    /\ lastPoll' = IF io THEN "io_error" ELSE "error"
    /\ UNCHANGED <<limiterVars, report, envVars, calls, runs, inFlight,
                   sinceDone, sinceSync, windowCalls, lastWindowCalls,
                   idleSignal, runsAtDrop, structSeen, freshSeen, reports,
                   sinceFirst, allWithin, lastFresh, reportsInFlight>>

\* sleep(reconnect_interval) is over
BackoffDone ==
    /\ UNCHANGED <<usersVars, fulfilVars, codecVars>>
    /\ ppc = "backoff"
    /\ backoffLeft = 0
    /\ ppc' = "poll"
    /\ UNCHANGED <<limiterVars, report, backoffLeft, envVars, obsVars>>

\* report_state returned, Ok or Err (an Err is logged)
ReportDone ==
    /\ UNCHANGED <<usersVars, fulfilVars, codecVars>>
    /\ ppc = "reporting"
    /\ ppc' = "poll"
    /\ report' = None
    /\ reportsInFlight' = reportsInFlight - 1
    /\ UNCHANGED <<limiterVars, backoffLeft, envVars, calls, runs, inFlight,
                   sinceDone, sinceSync, windowCalls, lastWindowCalls,
                   idleSignal, runsAtDrop, structSeen, freshSeen, reports,
                   sinceFirst, allWithin, lastPoll, lastFresh>>

\* the poller's future is dropped, and with it the report_state call it
\* awaits and the RateLimiter
DropLimiter ==
    /\ UNCHANGED <<usersVars, fulfilVars, codecVars>>
    /\ ~dropped
    /\ ppc' = "stopped"
    /\ report' = None
    /\ reportsInFlight' = 0
    /\ AbortLimiter
    /\ UNCHANGED <<permits, polling, sleepLeft, backoffLeft, envVars, calls,
                   runs,
                   sinceDone, sinceSync, windowCalls, lastWindowCalls,
                   idleSignal, structSeen, freshSeen, reports, sinceFirst,
                   allWithin, lastPoll, lastFresh>>

\* ------------------------------------------------------ callback_run_loop
\* a worker starts polling the task: it is not blocked in notified(), in
\* the callback's lock/RPC await, or in an unexpired sleep
BeginPoll ==
    /\ UNCHANGED <<usersVars, fulfilVars, codecVars>>
    /\ ~polling
    /\ lpc \in {"start", "notified", "running", "inRpc", "sleeping"}
    /\ lpc = "sleeping" => sleepLeft = 0
    /\ polling' = TRUE
    /\ UNCHANGED <<permits, lpc, sleepLeft, dropped, pollerVars, envVars,
                   obsVars>>

\* callback().await: request_sync(user_id, home_graph_client) starts.  With
\* a client it waits for the client lock and the RPC; without one it
\* returns at once and the loop goes on to sleep(period).  w is the number
\* of execute() calls of the window that ends here.
RunCallback(w) ==
    /\ runs' = runs + 1
    /\ lastWindowCalls' = w
    /\ windowCalls' = 0
    /\ idleSignal' = FALSE
    /\ IF hasClient
       THEN /\ lpc' = Yield("running")
            /\ inFlight' = IF dropped THEN 0 ELSE inFlight + 1
            /\ UNCHANGED <<sleepLeft, sinceDone>>
       ELSE /\ lpc' = Yield("sleeping")
            /\ sleepLeft' = sleep(Period)
            /\ sinceDone' = 0
            /\ UNCHANGED inFlight

\* notify.notified().await at the top of the loop: take the permit and go
\* on, or register as waiter
Notified(w) ==
    IF permits > 0
    THEN /\ permits' = permits - 1
         /\ RunCallback(w)
    ELSE /\ lpc' = Yield("waiting")
         /\ lastWindowCalls' = w
         /\ windowCalls' = 0
         /\ UNCHANGED <<permits, runs, idleSignal, inFlight, sleepLeft,
                        sinceDone>>

\* first poll of the spawned task
TaskStart ==
    /\ UNCHANGED <<usersVars, fulfilVars, codecVars>>
    /\ polling /\ lpc = "start"
    /\ Notified(0)
    /\ polling' = FALSE
    /\ UNCHANGED <<dropped, pollerVars, envVars, calls, sinceSync,
                   runsAtDrop, structSeen, freshSeen, reports, sinceFirst,
                   allWithin, lastPoll, lastFresh,
                   reportsInFlight>>

\* the waiter that notify_one woke resumes after notified().await
TaskWake ==
    /\ UNCHANGED <<usersVars, fulfilVars, codecVars>>
    /\ polling /\ lpc = "notified"
    /\ RunCallback(0)
    /\ polling' = FALSE
    /\ UNCHANGED <<permits, dropped, pollerVars, envVars, calls, sinceSync,
                   runsAtDrop, structSeen, freshSeen, reports, sinceFirst,
                   allWithin, lastPoll, lastFresh,
                   reportsInFlight>>

\* inside the callback: home_graph_client.request_sync got the client lock
\* and sends RequestSyncDevices
TaskIssueRpc ==
    /\ UNCHANGED <<usersVars, fulfilVars, codecVars>>
    /\ polling /\ lpc = "running"
    /\ lpc' = Yield("inRpc")
    /\ sinceSync' = 0
    /\ inFlight' = IF dropped THEN 0 ELSE inFlight
    /\ polling' = FALSE
    /\ UNCHANGED <<permits, sleepLeft, dropped, pollerVars, envVars, calls,
                   runs, sinceDone, windowCalls, lastWindowCalls, idleSignal,
                   runsAtDrop, structSeen, freshSeen, reports, sinceFirst,
                   allWithin, lastPoll, lastFresh,
                   reportsInFlight>>

\* the RPC returned (an Err is logged): the callback is complete and
\* time::sleep(period) starts
TaskCallbackDone ==
    /\ UNCHANGED <<usersVars, fulfilVars, codecVars>>
    /\ polling /\ lpc = "inRpc"
    /\ lpc' = Yield("sleeping")
    /\ sleepLeft' = sleep(Period)
    /\ sinceDone' = 0
    /\ inFlight' = IF dropped THEN 0 ELSE inFlight - 1
    /\ polling' = FALSE
    /\ UNCHANGED <<permits, dropped, pollerVars, envVars, calls, runs,
                   sinceSync, windowCalls, lastWindowCalls, idleSignal,
                   runsAtDrop, structSeen, freshSeen, reports, sinceFirst,
                   allWithin, lastPoll, lastFresh,
                   reportsInFlight>>

\* time::sleep(period) is over: next iteration of the loop
TaskSleepDone ==
    /\ UNCHANGED <<usersVars, fulfilVars, codecVars>>
    /\ polling /\ lpc = "sleeping" /\ sleepLeft = 0
    /\ Notified(windowCalls)
    /\ polling' = FALSE
    /\ UNCHANGED <<dropped, pollerVars, envVars, calls, sinceSync,
                   runsAtDrop, structSeen, freshSeen, reports, sinceFirst,
                   allWithin, lastPoll, lastFresh,
                   reportsInFlight>>

\* one tick of the clock passes
Tick ==
    /\ UNCHANGED <<usersVars, fulfilVars, codecVars>>
    /\ lpc # "aborted"
    /\ sleepLeft' = IF lpc = "sleeping" /\ sleepLeft > 0
                    THEN sleepLeft - 1 ELSE sleepLeft
    /\ backoffLeft' = IF ppc = "backoff" /\ backoffLeft > 0
                      THEN backoffLeft - 1 ELSE backoffLeft
    /\ sinceDone' = Sat(sinceDone)
    /\ sinceSync' = Sat(sinceSync)
    /\ sinceFirst' = Sat(sinceFirst)
    /\ UNCHANGED <<permits, lpc, polling, dropped, ppc, report, envVars,
                   calls, runs, inFlight, windowCalls, lastWindowCalls,
                   idleSignal, runsAtDrop, structSeen, freshSeen, reports,
                   allWithin, lastPoll, lastFresh,
                   reportsInFlight>>

Next ==
    \/ \E ev \in Events : PollEvent(ev)
    \/ PollNone
    \/ \E io \in BOOLEAN : PollError(io)
    \/ BackoffDone
    \/ ReportDone
    \/ DropLimiter
    \/ BeginPoll
    \/ TaskStart
    \/ TaskWake
    \/ TaskIssueRpc
    \/ TaskCallbackDone
    \/ TaskSleepDone
    \/ Tick

Spec == Init /\ [][Next]_vars

\* The same loop under fair scheduling: the runtime polls a task that can
\* make progress, the RPC of the callback returns, and time passes
Fairness ==
    /\ WF_vars(BeginPoll)
    /\ WF_vars(TaskStart)
    /\ WF_vars(TaskWake)
    /\ WF_vars(TaskIssueRpc)
    /\ WF_vars(TaskCallbackDone)
    /\ WF_vars(TaskSleepDone)
    /\ WF_vars(Tick)

\* the limiter does not read the device tree: one tree, with and without
\* a client
InitFair == Init /\ devices = DeviceTree("ready", NodeLight)

SpecFair == InitFair /\ [][Next]_vars /\ Fairness

TypeOK ==
    /\ permits \in 0..1
    /\ lpc \in {"start", "waiting", "notified", "running", "inRpc",
                "sleeping", "aborted"}
    /\ sleepLeft \in 0..Period
    /\ ppc \in {"poll", "reporting", "backoff", "stopped", "panicked"}
    /\ backoffLeft \in 0..ReconnectInterval
    /\ reportsInFlight \in 0..1
    /\ inFlight \in 0..1

\* ========================================================= several users
\* main spawns one homie_poller per user and hands each a clone of the one
\* HomeGraphClient, an Arc<Mutex<..>> around the gRPC client.  report_state
\* and request_sync are `self.0.lock().await.<rpc>(request).await`: the
\* guard is held until the RPC has returned.  Timers are left out here.
Tasks == {"poller", "sync"}

\* the event loop of one user, at rest, with a cloud client
LoopAtRest ==
    /\ InitLoop
    /\ devices = DeviceTree("ready", NodeLight)
    /\ hasClient = TRUE

InitUsers == UsersAtRest /\ LoopAtRest /\ FulfilAtRest /\ CodecAtRest

\* self.0.lock().await: the guard goes to the caller if the mutex is free
TryLock(holder, who) == IF holder = None THEN Some(who) ELSE holder

\* where a task is after lock().await was polled once
AfterLock(holder, who) == IF TryLock(holder, who) = Some(who) THEN "rpc" ELSE "lock"

\* user u's poller takes a fresh value change: node_state_changed calls
\* report_state
UserPollFresh(u) ==
    /\ upc[u] = "poll"
    /\ clientLock' = TryLock(clientLock, <<u, "poller">>)
    /\ upc' = [upc EXCEPT ![u] = AfterLock(clientLock, <<u, "poller">>)]
    /\ UNCHANGED <<spc, syncPermit, loopVars, fulfilVars, codecVars>>

\* user u's poller takes a structural update: request_sync.execute()
UserPollStructural(u) ==
    /\ upc[u] = "poll"
    /\ syncPermit' = [syncPermit EXCEPT ![u] = TRUE]
    /\ UNCHANGED <<clientLock, upc, spc, loopVars, fulfilVars, codecVars>>

\* user u's callback_run_loop takes the notification and starts the
\* callback: request_sync calls home_graph_client.request_sync
UserSyncStart(u) ==
    /\ spc[u] = "idle"
    /\ syncPermit[u]
    /\ syncPermit' = [syncPermit EXCEPT ![u] = FALSE]
    /\ clientLock' = TryLock(clientLock, <<u, "sync">>)
    /\ spc' = [spc EXCEPT ![u] = AfterLock(clientLock, <<u, "sync">>)]
    /\ UNCHANGED <<upc, loopVars, fulfilVars, codecVars>>

\* a task that waits in lock().await gets the guard
UserLockGranted(u, t) ==
    /\ clientLock = None
    /\ IF t = "poller" THEN upc[u] = "lock" ELSE spc[u] = "lock"
    /\ clientLock' = Some(<<u, t>>)
    /\ IF t = "poller"
       THEN upc' = [upc EXCEPT ![u] = "rpc"] /\ UNCHANGED spc
       ELSE spc' = [spc EXCEPT ![u] = "rpc"] /\ UNCHANGED upc
    /\ UNCHANGED <<syncPermit, loopVars, fulfilVars, codecVars>>

\* the RPC returned, Ok or Err: the guard is dropped; the poller polls
\* again, the limiter task sleeps
UserRpcDone(u, t) ==
    /\ clientLock = Some(<<u, t>>)
    /\ clientLock' = None
    /\ IF t = "poller"
       THEN upc' = [upc EXCEPT ![u] = "poll"] /\ UNCHANGED spc
       ELSE spc' = [spc EXCEPT ![u] = "sleeping"] /\ UNCHANGED upc
    /\ UNCHANGED <<syncPermit, loopVars, fulfilVars, codecVars>>

\* time::sleep(period) of user u's limiter task is over
UserSyncSleepDone(u) ==
    /\ spc[u] = "sleeping"
    /\ spc' = [spc EXCEPT ![u] = "idle"]
    /\ UNCHANGED <<clientLock, upc, syncPermit, loopVars, fulfilVars, codecVars>>

NextUsers ==
    \/ \E u \in Users : UserPollFresh(u)
    \/ \E u \in Users : UserPollStructural(u)
    \/ \E u \in Users : UserSyncStart(u)
    \/ \E u \in Users, t \in Tasks : UserLockGranted(u, t)
    \/ \E u \in Users, t \in Tasks : UserRpcDone(u, t)
    \/ \E u \in Users : UserSyncSleepDone(u)

SpecUsers == InitUsers /\ [][NextUsers]_vars

\* ============================================================ fulfillment
\* device addresses per command or query
MaxDevices == 2
\* executions per command
MaxExecutions == 2

\* str::split('/')
RECURSIVE split(_)
split(s) ==
    IF s = <<>> THEN << <<>> >>
    ELSE LET rest == split(Tail(s)) IN
         IF Head(s) = "/" THEN << <<>> >> \o rest
         ELSE << <<Head(s)>> \o rest[1] >> \o Tail(rest)

\* get_homie_device_by_id: "device_id/node_id" to the device and the node
get_homie_device_by_id(devs, id) ==
    LET id_parts == split(id) IN
    IF /\ Len(id_parts) = 2
       /\ id_parts[1] \in DOMAIN devs
       /\ id_parts[2] \in DOMAIN devs[id_parts[1]].nodes
    THEN Some(<<devs[id_parts[1]], devs[id_parts[1]].nodes[id_parts[2]]>>)
    ELSE None

\* Property::range::<i64>(): Ok for an integer property with a min:max format
range_ok(p) == p.datatype = "integer" /\ p.format # None

\* variant: the scaled percentage without range.start()
PercentageToValueNoStart(p, percentage) ==
    IF range_ok(p)
    THEN Some(TruncDiv(percentage * (p.format[1][2] - p.format[1][1]), 100))
    ELSE None

\* percentage_to_property_value, Integer arm; the decimal string is kept as
\* the number it spells
percentage_to_property_value(p, percentage) ==
    IF range_ok(p)
    THEN LET lo == p.format[1][1]
             hi == p.format[1][2]
         IN Some(lo + TruncDiv(percentage * (hi - lo), 100))
    ELSE None

\* Property::color_format()
color_format(p) ==
    IF p.datatype = "color" /\ p.format \in {Some("rgb"), Some("hsv")}
    THEN p.format ELSE None

\* (x * 100.0) as u8 for the f64 nearest to n / 100: the product falls just
\* below n for n = 29, 57, 58 and the cast truncates
times_hundred(frac) ==
    IF frac[1] \in {29, 57, 58} THEN frac[1] - 1 ELSE frac[1]

\* color_absolute_to_property_value; "r,g,b" and "h,s,v" are kept as the
\* triples they spell
color_absolute_to_property_value(p, color) ==
    IF color_format(p) = Some("rgb") /\ color.kind = "rgb"
    THEN Some(<<(color.spectrum_rgb \div 65536) % 256,
                (color.spectrum_rgb \div 256) % 256,
                color.spectrum_rgb % 256>>)
    ELSE IF color_format(p) = Some("hsv") /\ color.kind = "hsv"
    THEN Some(<<color.hue, times_hundred(color.saturation),
                times_hundred(color.value)>>)
    ELSE None

\* ----------------------------------------------------- fulfillment inputs
\* homie_controller::Node and Device with the fields the handlers read
FNode(id, props) == [id |-> id, name |-> None, properties |-> props]

FSwitch == [id \in {"on"} |-> Prop("boolean", None, Some("true"))]
FLightRgb ==
    [id \in {"on", "brightness", "color"} |->
        IF id = "on" THEN Prop("boolean", None, Some("true"))
        ELSE IF id = "brightness"
        THEN Prop("integer", Some(<<10, 20>>), Some(13))
        ELSE Prop("color", Some("rgb"), Some(<<17, 34, 51>>))]
FLightHsv ==
    [id \in {"on", "color"} |->
        IF id = "on" THEN Prop("boolean", None, Some("true"))
        ELSE Prop("color", Some("hsv"), Some(<<120, 50, 100>>))]
\* `on` is not a Boolean, `brightness` declares no range, `color` no format
FOddTypes ==
    [id \in {"on", "brightness", "color"} |->
        IF id = "on" THEN Prop("string", None, Some("true"))
        ELSE IF id = "brightness" THEN Prop("integer", None, Some(13))
        ELSE Prop("color", None, Some(<<17, 34, 51>>))]
FSensor == [id \in {"temperature"} |-> Prop("integer", None, Some(21))]
FOther == [id \in {"foo"} |-> Prop("string", None, Some("x"))]
FDimmer ==
    [id \in {"on", "brightness"} |->
        IF id = "on" THEN Prop("boolean", None, Some("true"))
        ELSE Prop("integer", Some(<<0, 100>>), Some(100))]
FColorRgb ==
    [id \in {"on", "color"} |->
        IF id = "on" THEN Prop("boolean", None, Some("true"))
        ELSE Prop("color", Some("rgb"), Some(<<255, 255, 0>>))]
FThermoSwitch ==
    [id \in {"on", "temperature"} |->
        IF id = "on" THEN Prop("boolean", None, Some("true"))
        ELSE Prop("integer", None, Some(21))]
FBrightnessOnly ==
    [id \in {"brightness"} |-> Prop("integer", Some(<<0, 100>>), Some(100))]
\* a `color` property whose format is neither "rgb" nor "hsv"
FColorInvalid == [id \in {"color"} |-> Prop("color", None, Some(<<1, 2, 3>>))]

FProperties ==
    {FLightRgb, FLightHsv, FOddTypes, FSensor, FOther, FDimmer, FColorRgb,
     FThermoSwitch, FBrightnessOnly, FColorInvalid}
FStates == {"ready", "sleeping", "lost", "disconnected"}

D1 == <<"d", "1">>
D2 == <<"d", "2">>
N1 == <<"n", "1">>

\* controller.devices(): device d1 in state st with node n1, and a ready
\* device d2 with a switch n1
FulfilTree(st, props) ==
    [d \in {D1, D2} |->
        [id |-> d, name |-> None,
         state |-> IF d = D1 THEN st ELSE "ready",
         nodes |-> [n \in {N1} |->
                      FNode(n, IF d = D1 THEN props ELSE FSwitch)]]]

\* every node on a ready device, and the RGB light in every device state
FulfilTrees ==
    {FulfilTree("ready", props) : props \in FProperties}
        \cup {FulfilTree(st, FLightRgb) : st \in FStates}

\* the addresses of a request: two that exist, an unknown node, an unknown
\* device, one without separator, one with two separators
Addresses ==
    {D1 \o <<"/">> \o N1, D2 \o <<"/">> \o N1,
     D1 \o <<"/">> \o <<"n", "9">>, <<"d", "9">> \o <<"/">> \o N1,
     D1, D1 \o <<"/">> \o N1 \o <<"/">> \o <<"x">>}

\* the commands of a request
Commands ==
    {[command |-> "OnOff", on |-> TRUE],
     [command |-> "BrightnessAbsolute", brightness |-> 50],
     [command |-> "ColorAbsolute",
      color |-> [kind |-> "rgb", spectrum_rgb |-> 4478310]],
     [command |-> "ColorAbsolute",
      color |-> [kind |-> "hsv", hue |-> 240, saturation |-> <<29, 100>>,
                 value |-> <<100, 100>>]],
     [command |-> "Other"]}

\* the sequences over S of length at most n
SeqsUpTo(S, n) == UNION {[1..k -> S] : k \in 0..n}

\* ------------------------------------------------------------------ sync
\* variant: only Ready counts as reachable
ReachableReadyOnly(st) == st = "ready"

\* device.state == State::Ready || device.state == State::Sleeping
Reachable(st) == st \in {"ready", "sleeping"}

\* variant: the descriptor id is joined with a dot
DescriptorIdDot(device, node) == device.id \o <<".">> \o node.id

\* format!("{}/{}", device.id, node.id) of homie_node_to_google_home
DescriptorId(device, node) == device.id \o <<"/">> \o node.id

\* name.clone().unwrap_or_else(|| id.clone())
NameOrId(x) == IF x.name = None THEN x.id ELSE x.name[1]

\* the color format of the node's `color` property, if it has a valid one
node_color_format(node) ==
    IF Has(node, "color") THEN color_format(node.properties["color"])
    ELSE None

\* the traits pushed by homie_node_to_google_home, in the order of its rules
node_traits(node) ==
    (IF Has(node, "on") THEN <<"OnOff">> ELSE <<>>)
        \o (IF Has(node, "brightness") THEN <<"Brightness">> ELSE <<>>)
        \o (IF node_color_format(node) # None
            THEN <<"ColorSetting">> ELSE <<>>)
        \o (IF Has(node, "temperature")
            THEN <<"TemperatureSetting">> ELSE <<>>)

\* variant: the first rule that assigns a type wins
NodeDeviceTypeFirstWins(node) ==
    IF Has(node, "on") THEN Some("Switch")
    ELSE IF node_color_format(node) # None THEN Some("Light")
    ELSE IF Has(node, "temperature") THEN Some("Thermostat")
    ELSE None

\* variant: the brightness rule assigns Light without looking for `on`
NodeDeviceTypeBrightnessLight(node) ==
    IF Has(node, "temperature") THEN Some("Thermostat")
    ELSE IF node_color_format(node) # None THEN Some("Light")
    ELSE IF Has(node, "brightness") THEN Some("Light")
    ELSE IF Has(node, "on") THEN Some("Switch")
    ELSE None

\* the device_type left by the rules of homie_node_to_google_home: each
\* rule overwrites the type of the rules before it, so the last rule that
\* assigns one decides
node_device_type(node) ==
    IF Has(node, "temperature") THEN Some("Thermostat")
    ELSE IF node_color_format(node) # None THEN Some("Light")
    ELSE IF Has(node, "brightness") /\ Has(node, "on") THEN Some("Light")
    ELSE IF Has(node, "on") THEN Some("Switch")
    ELSE None

\* homie_node_to_google_home: the descriptor of a node, if a device type
\* was assigned
homie_node_to_google_home(device, node) ==
    LET hasTemperature == Has(node, "temperature")
        traits == node_traits(node)
        device_type == node_device_type(node)
    IN IF device_type = None THEN None
       ELSE Some([id |-> DescriptorId(device, node),
                  device_type |-> device_type[1],
                  traits |-> traits,
                  name |-> NameOrId(device) \o <<" ">> \o NameOrId(node),
                  nicknames |-> <<NameOrId(node)>>,
                  will_report_state |-> traits # <<>>,
                  attributes |->
                      [color_model |-> node_color_format(node),
                       available_thermostat_modes |->
                           IF hasTemperature THEN Some(<<"off">>) ELSE None,
                       thermostat_temperature_unit |->
                           IF hasTemperature THEN Some("C") ELSE None,
                       query_only_temperature_setting |->
                           IF hasTemperature THEN Some(TRUE) ELSE None]])

\* homie_devices_to_google_home; the Vec is in HashMap order and kept as
\* the set of its elements
homie_devices_to_google_home(devs) ==
    UNION {{homie_node_to_google_home(devs[d], devs[d].nodes[n])[1] :
               n \in {n \in DOMAIN devs[d].nodes :
                         homie_node_to_google_home(devs[d], devs[d].nodes[n])
                             # None}} :
           d \in {d \in DOMAIN devs : Reachable(devs[d].state)}}

\* sync::handle
sync_handle(controller, devs) ==
    IF controller
    THEN [error_code |-> None, devices |-> homie_devices_to_google_home(devs)]
    ELSE [error_code |-> Some("authFailure"), devices |-> {}]

\* ----------------------------------------------------------------- query
\* response::State::default(), serialized
DefaultState == "online" :> FALSE

\* get_homie_device of query
get_homie_device(devs, id) ==
    LET found == get_homie_device_by_id(devs, id) IN
    IF found # None
    THEN IF Reachable(found[1][1].state)
         THEN [state |-> homie_node_to_state(found[1][2], TRUE),
               status |-> "Success", error_code |-> None]
         ELSE [state |-> DefaultState, status |-> "Offline",
               error_code |-> Some("offline")]
    ELSE [state |-> DefaultState, status |-> "Error",
          error_code |-> Some("deviceNotFound")]

\* the ids of a sequence of request devices
Ids(ids) == {ids[i] : i \in DOMAIN ids}

\* get_homie_devices: the HashMap from request id to response
get_homie_devices(devs, ids) ==
    [id \in Ids(ids) |-> get_homie_device(devs, id)]

\* query::handle
query_handle(controller, devs, ids) ==
    IF controller
    THEN [error_code |-> None, devices |-> get_homie_devices(devs, ids)]
    ELSE [error_code |-> Some("authFailure"), devices |-> <<>>]

\* --------------------------------------------------------------- execute
\* command_error
command_error(ids, error_code) ==
    [ids |-> ids, status |-> "Error", error_code |-> Some(error_code)]

\* variant: no controller.set call for a device that is not reachable
SetValueOnlineOnly(device, node, property_id, value, ids, ok) ==
    IF ~Reachable(device.state)
    THEN [write |-> None, result |-> command_error(ids, "deviceOffline")]
    ELSE [write |-> Some([device_id |-> device.id, node_id |-> node.id,
                          property_id |-> property_id, value |-> value]),
          result |-> IF ok
                     THEN [ids |-> ids, status |-> "Pending",
                           error_code |-> None]
                     ELSE command_error(ids, "transientError")]

\* set_value: the controller.set call and the result that follows from its
\* outcome
set_value(device, node, property_id, value, ids, ok) ==
    [write |-> Some([device_id |-> device.id, node_id |-> node.id,
                     property_id |-> property_id, value |-> value]),
     result |-> IF ok
                THEN [ids |-> ids, status |-> "Pending", error_code |-> None]
                ELSE command_error(ids, "transientError")]

\* a result without a controller.set call
NoWrite(result) == [write |-> None, result |-> result]

\* variant: any `on` property takes an OnOff command
OnMatchesAnyDatatype(node) == Has(node, "on")

\* the OnOff arm of execute_homie_device: a Boolean `on` property
OnMatches(node) ==
    Has(node, "on") /\ node.properties["on"].datatype = "boolean"

\* execute_homie_device: one execution on one request device
execute_homie_device(devs, execution, id, ok) ==
    LET ids == <<id>>
        found == get_homie_device_by_id(devs, id)
    IN IF found = None THEN NoWrite(command_error(ids, "deviceNotFound"))
       ELSE LET device == found[1][1]
                node == found[1][2]
                brightness ==
                    IF execution.command = "BrightnessAbsolute"
                       /\ Has(node, "brightness")
                    THEN percentage_to_property_value(
                             node.properties["brightness"],
                             execution.brightness)
                    ELSE None
                color ==
                    IF execution.command = "ColorAbsolute"
                       /\ Has(node, "color")
                    THEN color_absolute_to_property_value(
                             node.properties["color"], execution.color)
                    ELSE None
            IN IF execution.command = "OnOff" /\ OnMatches(node)
               THEN set_value(device, node, "on", execution.on, ids, ok)
               ELSE IF brightness # None
               THEN set_value(device, node, "brightness", brightness[1],
                              ids, ok)
               ELSE IF color # None
               THEN set_value(device, node, "color", color[1], ids, ok)
               ELSE NoWrite(command_error(ids, "actionNotAvailable"))

\* cmd.execution.iter().zip(cmd.devices.iter()): the i-th execution with
\* the i-th device, as far as the shorter of the two goes
zip(execution, devs) ==
    [i \in 1..(IF Len(execution) < Len(devs)
               THEN Len(execution) ELSE Len(devs)) |->
        <<execution[i], devs[i]>>]

\* payload.commands.iter().flat_map(..)
RECURSIVE flat_map_zip(_)
flat_map_zip(commands) ==
    IF commands = <<>> THEN <<>>
    ELSE zip(Head(commands).execution, Head(commands).devices)
             \o flat_map_zip(Tail(commands))

\* execute_homie_devices: the outcomes of the requests, in order
execute_homie_devices(devs, requests, ok) ==
    [i \in DOMAIN requests |->
        execute_homie_device(devs, requests[i][1], requests[i][2], ok)]

\* the controller.set calls among the outcomes, in order
RECURSIVE WritesOf(_)
WritesOf(outcomes) ==
    IF outcomes = <<>> THEN <<>>
    ELSE Head(outcomes).write \o WritesOf(Tail(outcomes))

\* variant: the commands are executed before the controller is looked up
ExecuteHandleWritesFirst(controller, devs, commands, ok) ==
    LET requests == flat_map_zip(commands)
        outcomes == execute_homie_devices(devs, requests, ok)
    IN [payload |-> [error_code |-> IF controller THEN None
                                    ELSE Some("authFailure"),
                     commands |-> [i \in DOMAIN outcomes |->
                                      outcomes[i].result]],
        writes |-> WritesOf(outcomes)]

\* execute::handle: the response payload and the controller.set calls
execute_handle(controller, devs, commands, ok) ==
    LET requests == flat_map_zip(commands)
        outcomes == execute_homie_devices(devs, requests, ok)
    IN IF controller
       THEN [payload |-> [error_code |-> None,
                          commands |-> [i \in DOMAIN outcomes |->
                                           outcomes[i].result]],
             writes |-> WritesOf(outcomes)]
       ELSE [payload |-> [error_code |-> Some("authFailure"),
                          commands |-> <<>>],
             writes |-> <<>>]

\* ---------------------------------------------------------- the requests
\* a user with a controller and a device tree, or without controller; the
\* handlers keep no state between requests, so one request is followed
InitFulfil ==
    /\ \/ hasController = TRUE /\ fdevices \in FulfilTrees
       \/ hasController = FALSE /\ fdevices = <<>>
    /\ RequestsAtRest
    /\ UsersAtRest
    /\ LoopAtRest
    /\ CodecAtRest

\* a SYNC intent
Sync ==
    /\ request = None
    /\ request' = Some([intent |-> "sync"])
    /\ response' = Some(sync_handle(hasController, fdevices))
    /\ UNCHANGED <<fdevices, hasController, writes, loopVars, usersVars, codecVars>>

\* a QUERY intent for a batch of addresses
Query ==
    /\ request = None
    /\ \E ids \in SeqsUpTo(Addresses, MaxDevices) :
           /\ request' = Some([intent |-> "query", devices |-> ids])
           /\ response' = Some(query_handle(hasController, fdevices, ids))
    /\ UNCHANGED <<fdevices, hasController, writes, loopVars, usersVars, codecVars>>

\* an EXECUTE intent with one command; ok is whether controller.set
\* succeeds
Execute ==
    /\ request = None
    /\ \E ids \in SeqsUpTo(Addresses, MaxDevices),
          execution \in SeqsUpTo(Commands, MaxExecutions),
          ok \in BOOLEAN :
           LET commands == <<[devices |-> ids, execution |-> execution]>>
               done == execute_handle(hasController, fdevices, commands, ok)
           IN /\ request' = Some([intent |-> "execute",
                                  commands |-> commands, ok |-> ok])
              /\ response' = Some(done.payload)
              /\ writes' = done.writes
    /\ UNCHANGED <<fdevices, hasController, loopVars, usersVars, codecVars>>

NextFulfil ==
    \/ Sync
    \/ Query
    \/ Execute

SpecFulfil == InitFulfil /\ [][NextFulfil]_vars

\* ================================================================== codec
\* The conversions of fulfillment/homie.rs applied to one property: the
\* property is drawn at the start and every step calls one conversion on
\* it.  A command may carry what the last state conversion returned, as
\* when a user sends back the percentage or color that was shown.
MinValue == -2
MaxValue == 22

\* Property::range() of the Integer properties
CodecRanges == {<<10, 20>>, <<0, 100>>, <<0, 3>>, <<0, 255>>, <<5, 5>>}

\* saturation and value of the HSV colors, in hundredths, and their hues
Hundredths == {0, 20, 29, 30, 50, 57, 58, 60, 100}
Hues == {0, 280, 290, 360}

\* the properties a conversion is called with
CodecProperties ==
    {Prop("integer", Some(r), Some(v)) :
         r \in CodecRanges, v \in MinValue..MaxValue}
    \cup {Prop("integer", None, Some(13)),
          Prop("integer", Some(<<10, 20>>), None)}
    \cup {Prop("color", Some("rgb"), Some(c)) :
              c \in {<<17, 34, 51>>, <<255, 255, 0>>, <<0, 0, 0>>}}
    \cup {Prop("color", Some("hsv"), Some(<<h, sa, va>>)) :
              h \in Hues, sa \in Hundredths, va \in Hundredths}
    \cup {Prop("color", Some("xyz"), Some(<<1, 2, 3>>)),
          Prop("color", Some("rgb"), None),
          Prop("boolean", None, Some("true")),
          Prop("string", None, Some("x"))}

\* the percentages and colors of commands
Percentages == {0, 30, 50, 100}
CodecColors ==
    {[kind |-> "rgb", spectrum_rgb |-> 4478310],
     [kind |-> "hsv", hue |-> 290, saturation |-> <<20, 100>>,
      value |-> <<30, 100>>]}

\* response::Color as the ColorAbsolute command that carries it back
color_as_command(c) ==
    IF "spectrumRgb" \in DOMAIN c
    THEN [kind |-> "rgb", spectrum_rgb |-> c.spectrumRgb]
    ELSE [kind |-> "hsv", hue |-> c.hue, saturation |-> c.saturation,
          value |-> c.value]

\* how a call ended
Returned(v) == [panicked |-> FALSE, value |-> v]
Panicked == [panicked |-> TRUE, value |-> None]

\* the last call was conversion op and it returned a value
LastReturned(op) ==
    ccall # None /\ ccall[1].op = op /\ cresult.value # None

\* what the last state conversion returned, as a command argument
PreviousPercentage ==
    IF LastReturned("property_value_to_percentage")
    THEN {cresult.value[1]} ELSE {}
PreviousColor ==
    IF LastReturned("property_value_to_color")
    THEN {color_as_command(cresult.value[1])} ELSE {}

InitCodec ==
    /\ cproperty \in {Some(p) : p \in CodecProperties}
    /\ ccall = None
    /\ cresult = NoResult
    /\ LoopAtRest
    /\ UsersAtRest
    /\ FulfilAtRest

\* property_value_to_percentage(property)
ToPercentage ==
    /\ ccall' = Some([op |-> "property_value_to_percentage", arg |-> None])
    /\ cresult' = IF percentage_panics(cproperty[1]) THEN Panicked
                  ELSE Returned(property_value_to_percentage(cproperty[1]))
    /\ UNCHANGED <<cproperty, loopVars, usersVars, fulfilVars>>

\* percentage_to_property_value(property, percentage)
FromPercentage ==
    /\ \E percentage \in Percentages \cup PreviousPercentage :
           /\ ccall' = Some([op |-> "percentage_to_property_value",
                             arg |-> Some(percentage)])
           /\ cresult' = Returned(percentage_to_property_value(
                                      cproperty[1], percentage))
    /\ UNCHANGED <<cproperty, loopVars, usersVars, fulfilVars>>

\* property_value_to_number(property)
ToNumber ==
    /\ ccall' = Some([op |-> "property_value_to_number", arg |-> None])
    /\ cresult' = Returned(property_value_to_number(cproperty[1]))
    /\ UNCHANGED <<cproperty, loopVars, usersVars, fulfilVars>>

\* property_value_to_color(property)
ToColor ==
    /\ ccall' = Some([op |-> "property_value_to_color", arg |-> None])
    /\ cresult' = Returned(property_value_to_color(cproperty[1]))
    /\ UNCHANGED <<cproperty, loopVars, usersVars, fulfilVars>>

\* color_absolute_to_property_value(property, color_absolute)
FromColor ==
    /\ \E color \in CodecColors \cup PreviousColor :
           /\ ccall' = Some([op |-> "color_absolute_to_property_value",
                             arg |-> Some(color)])
           /\ cresult' = Returned(color_absolute_to_property_value(
                                      cproperty[1], color))
    /\ UNCHANGED <<cproperty, loopVars, usersVars, fulfilVars>>

NextCodec ==
    \/ ToPercentage
    \/ FromPercentage
    \/ ToNumber
    \/ ToColor
    \/ FromColor

SpecCodec == InitCodec /\ [][NextCodec]_vars

\* ================================================================= claims

\* the burst of MaxCalls execute() calls has been made, all within one
\* period of the first, and the limiter has come to rest
BurstDone ==
    /\ calls = MaxCalls
    /\ allWithin
    /\ ~dropped
    /\ lpc = "waiting" /\ permits = 0

\* C1 (as stated): a burst of execute() calls within one period on a fresh
\* limiter results in exactly 2 runs of the action, for every interleaving
C1_ExactlyTwoRuns == BurstDone => runs = 2

\* C1 (amended): a burst of execute() calls within one period on a fresh
\* limiter results in 1 or 2 runs of the action, never 0 and never more
C1_OneOrTwoRuns == BurstDone => runs \in {1, 2}

C1_Witness == BurstDone /\ runs = 2 /\ sinceFirst >= Period

\* the limiter task finishes a poll in this step
TaskYields == polling /\ ~polling'

\* C2: a run of the action never starts before the period has elapsed
\* since the previous run completed
C2_MinGap ==
    [][runs' = runs + 1 => (sinceDone = -1 \/ sinceDone >= Period)]_vars

C2_Witness == runs >= 2 /\ lpc = "running" /\ sinceDone >= Period

\* C3: N >= 1 execute() calls made while a run is in flight or during the
\* sleep that follows it produce exactly one extra run: when the window
\* ends one run starts and no signal is left over
C3_Coalesce ==
    [][(TaskYields /\ lpc = "sleeping" /\ windowCalls >= 1)
         => (runs' = runs + 1 /\ permits' = 0)]_vars

C3_Witness == runs >= 2 /\ lastWindowCalls >= 2 /\ permits = 0 /\ lpc = "inRpc"

\* C4: at most one instance of the action is in flight and at most one
\* further run is pending; two runs never overlap
C4_OneInFlight ==
    /\ inFlight <= 1
    /\ permits <= 1
    /\ inFlight = 1 => lpc \in {"running", "inRpc"}

C4_Witness == inFlight = 1 /\ permits = 1 /\ calls >= 2

\* the task's next step starts the action, with no timer to wait for
ReadyToRun == lpc = "notified" \/ (lpc = "start" /\ permits >= 1)

\* C5: an execute() call made while the limiter is idle makes the action
\* run immediately: until the run starts the task is ready to start it,
\* and the signal is served by a run
C5_IdleRunsNow ==
    /\ []((idleSignal /\ lpc # "aborted") => ReadyToRun)
    /\ [][(idleSignal /\ ~idleSignal') => runs' = runs + 1]_vars

C5_Witness == idleSignal /\ lpc = "notified" /\ sinceDone >= Period

\* C6: execute() only records the signal and returns: the event loop is
\* back at its poll, and no run was started or awaited by the call
C6_ExecuteReturns ==
    [][calls' = calls + 1
         => (ppc' = "poll" /\ runs' = runs /\ inFlight' = inFlight
             /\ sleepLeft' = sleepLeft)]_vars

C6_Witness == calls >= 1 /\ lpc = "inRpc" /\ ppc = "reporting"

\* C7: no run of the action starts after the drop has returned
C7_NoRunAfterDrop == dropped => runs = runsAtDrop

\* C8: the event loop calls request_sync.execute() for exactly the
\* structural updates with has_required_attributes = true, and cloud
\* request_sync calls are at least REQUEST_SYNC_RATE_LIMIT apart
C8_SyncSignals ==
    /\ [](calls = structSeen)
    /\ [][(TaskYields /\ lpc = "running")
            => (sinceSync = -1 \/ sinceSync >= Period)]_vars

C8_Witness ==
    structSeen >= 2 /\ runs >= 2 /\ lpc = "inRpc" /\ sinceSync = 0

\* the composite address of the last fresh value change
LastFreshAddress == lastFresh[1][1] \o <<"/">> \o lastFresh[1][2]

\* C9: every fresh value change of a known node, with a client, makes one
\* report_state call addressed to device_id/node_id before the next poll
C9_ReportEveryFresh ==
    /\ [](reports = freshSeen)
    /\ []((ppc = "reporting") =>
            (report # None /\ lastFresh # None
             /\ report[1].device_id = LastFreshAddress))
    /\ [][freshSeen' = freshSeen + 1 => ppc' = "reporting"]_vars

C9_Witness == freshSeen = 2 /\ reports = 2 /\ ppc = "reporting"

\* the node has none of the recognized properties
NoCapability(node) ==
    DOMAIN node.properties
        \cap {"on", "brightness", "color", "temperature", "humidity"} = {}

\* C10: no report_state call is made for a node without a recognized
\* capability
C10_SkipEmptyPayload ==
    (ppc = "reporting" /\ lastFresh # None)
        => ~NoCapability(devices[lastFresh[1][1]].nodes[lastFresh[1][2]])

\* C11: an event that is neither a structural update with
\* has_required_attributes = true nor a fresh value change causes no cloud
\* call: no execute() signal and no report_state call
C11_QuietNoCloudCall ==
    [][lastPoll' = "quiet"
         => (calls' = calls /\ reports' = reports /\ report' = None
             /\ reportsInFlight' = reportsInFlight)]_vars

C11_Witness ==
    lastPoll = "quiet" /\ ppc = "poll" /\ calls >= 1 /\ reports >= 1

\* C12: the event loop never terminates on a failed conversion, a failed
\* cloud call or a poll error: unless it is dropped, the poller is polling,
\* awaiting a report or in its reconnect sleep
C12_LoopKeepsRunning == ppc \in {"poll", "reporting", "backoff", "stopped"}

\* C13: the reconnect sleep follows a poll error if and only if it is a
\* connection-level I/O error, it lasts the reconnect interval, and the
\* loop is back at its poll after either kind of error
C13_BackoffOnlyIo ==
    /\ [][(ppc = "poll" /\ ppc' = "backoff")
            => (lastPoll' = "io_error"
                /\ backoffLeft' = ReconnectInterval)]_vars
    /\ [][(lastPoll # "io_error" /\ lastPoll' = "io_error")
            => ppc' = "backoff"]_vars
    /\ [][(lastPoll # "error" /\ lastPoll' = "error") => ppc' = "poll"]_vars
    /\ [][(ppc = "backoff" /\ ppc' # "backoff")
            => ((ppc' = "poll" /\ backoffLeft = 0) \/ ppc' = "stopped")]_vars

C13_Witness ==
    lastPoll = "io_error" /\ ppc = "poll" /\ backoffLeft = 0 /\ ~dropped

\* C14: report_state calls are made one at a time in the order of the
\* events: a call starts only when none is in flight, and the call in
\* flight is the one of the latest fresh value change
C14_ReportsInOrder ==
    /\ [](reportsInFlight <= 1)
    /\ [][reports' = reports + 1 => reportsInFlight = 0]_vars
    /\ []((report # None /\ lastFresh # None)
            => report[1].device_id = LastFreshAddress)

C14_Witness == reports = 2 /\ reportsInFlight = 1 /\ ppc = "reporting"

\* a task of user u waits for the client mutex while it is held for a call
\* of another user
WaitsForOtherUser(u) ==
    /\ upc[u] = "lock" \/ spc[u] = "lock"
    /\ clientLock # None
    /\ clientLock[1][1] # u

\* C15: a cloud call in flight for one user never keeps a task of another
\* user from issuing its own cloud call
C15_UsersIndependent == \A u \in Users : ~WaitsForOtherUser(u)

\* ---------------------------------------------------- fulfillment claims
\* the request handled, for a user with a controller
SyncDone == request # None /\ request[1].intent = "sync" /\ hasController
QueryDone == request # None /\ request[1].intent = "query" /\ hasController
ExecuteDone ==
    request # None /\ request[1].intent = "execute" /\ hasController

\* the command of the execute request and the results in its response
TheCommand == request[1].commands[1]
Results == response[1].commands

\* the composite address of node n of device d
Address(d, n) == d \o <<"/">> \o n

\* the address is that of a device and node of the tree
Names(a) ==
    \E d \in DOMAIN fdevices :
        \E n \in DOMAIN fdevices[d].nodes : a = Address(d, n)

\* the results addressed to a, in order
RECURSIVE ResultsFor(_, _)
ResultsFor(results, a) ==
    IF results = <<>> THEN <<>>
    ELSE (IF Head(results).ids = <<a>> THEN <<Head(results)>> ELSE <<>>)
             \o ResultsFor(Tail(results), a)

\* C16: in the response to an execute request every device address of the
\* command has a result, Pending or Error, whatever the numbers of devices
\* and executions
C16_EveryAddressAnswered ==
    ExecuteDone =>
        \A i \in DOMAIN TheCommand.devices :
            TheCommand.execution # <<>> =>
                \E j \in DOMAIN Results :
                    /\ Results[j].ids = <<TheCommand.devices[i]>>
                    /\ Results[j].status \in {"Pending", "Error"}

\* the batch without the addresses that name no device and node
RECURSIVE KnownOnly(_)
KnownOnly(ids) ==
    IF ids = <<>> THEN <<>>
    ELSE (IF Names(Head(ids)) THEN <<Head(ids)>> ELSE <<>>)
             \o KnownOnly(Tail(ids))

NotFound(r) == r.status = "Error" /\ r.error_code = Some("deviceNotFound")

\* the execute request handled, with the unknown addresses left out
ExecuteKnownOnly ==
    execute_handle(TRUE, fdevices,
                   <<[devices |-> KnownOnly(TheCommand.devices),
                      execution |-> TheCommand.execution]>>,
                   request[1].ok)

\* C17: an address of a query or execute batch that names no device and
\* node is answered Error / deviceNotFound, causes no controller.set call,
\* and leaves the results of the other addresses as they are without it
C17_UnknownAddress ==
    /\ QueryDone =>
         \A a \in Ids(request[1].devices) :
             IF Names(a)
             THEN response[1].devices[a]
                    = query_handle(TRUE, fdevices,
                                   KnownOnly(request[1].devices)).devices[a]
             ELSE NotFound(response[1].devices[a])
    /\ ExecuteDone =>
         /\ \A a \in Ids(TheCommand.devices) :
                IF Names(a)
                THEN ResultsFor(Results, a)
                       = ResultsFor(ExecuteKnownOnly.payload.commands, a)
                ELSE /\ TheCommand.execution # <<>>
                          => ResultsFor(Results, a) # <<>>
                     /\ \A j \in DOMAIN Results :
                            Results[j].ids = <<a>> => NotFound(Results[j])
         /\ writes = ExecuteKnownOnly.writes

\* C18: a device that is neither Ready nor Sleeping has no descriptor in
\* the sync response and its nodes are answered Offline, with an error
\* code and the default state, by query; a Ready or Sleeping device is
\* never answered Offline
C18_UnreachableHidden ==
    /\ SyncDone =>
         \A d \in DOMAIN fdevices :
             fdevices[d].state \notin {"ready", "sleeping"} =>
                 \A n \in DOMAIN fdevices[d].nodes :
                     \A desc \in response[1].devices : desc.id # Address(d, n)
    /\ QueryDone =>
         \A d \in DOMAIN fdevices :
             \A n \in DOMAIN fdevices[d].nodes :
                 Address(d, n) \in DOMAIN response[1].devices =>
                     LET r == response[1].devices[Address(d, n)] IN
                     IF fdevices[d].state \notin {"ready", "sleeping"}
                     THEN /\ r.status = "Offline"
                          /\ r.error_code # None /\ r.error_code[1] # ""
                          /\ r.state = ("online" :> FALSE)
                     ELSE r.status # "Offline"

C18_Witness ==
    /\ QueryDone
    /\ fdevices[D1].state = "lost"
    /\ request[1].devices = <<Address(D1, N1), Address(D2, N1)>>
    /\ response[1].devices[Address(D1, N1)].status = "Offline"
    /\ response[1].devices[Address(D2, N1)].status = "Success"

\* an execute request of one execution for one address of the tree
SinglePair ==
    /\ ExecuteDone
    /\ Len(TheCommand.devices) = 1 /\ Len(TheCommand.execution) = 1
    /\ Names(TheCommand.devices[1])

\* the properties of the node at address a
PropertiesAt(a) ==
    LET d == CHOOSE d \in DOMAIN fdevices :
                 \E n \in DOMAIN fdevices[d].nodes : a = Address(d, n)
        n == CHOOSE n \in DOMAIN fdevices[d].nodes : a = Address(d, n)
    IN fdevices[d].nodes[n].properties

\* the property the command is for
PropertyOf(cmd) ==
    IF cmd.command = "OnOff" THEN "on"
    ELSE IF cmd.command = "BrightnessAbsolute" THEN "brightness"
    ELSE "color"

\* the node has no matching property for the command
NoMatch(props, cmd) ==
    \/ cmd.command = "OnOff"
         /\ ~("on" \in DOMAIN props /\ props["on"].datatype = "boolean")
    \/ cmd.command = "BrightnessAbsolute"
         /\ ~("brightness" \in DOMAIN props
              /\ props["brightness"].datatype \in {"integer", "float"}
              /\ props["brightness"].format # None)
    \/ cmd.command = "ColorAbsolute"
         /\ ~("color" \in DOMAIN props
              /\ props["color"].datatype = "color"
              /\ props["color"].format = Some(cmd.color.kind))
    \/ cmd.command \notin {"OnOff", "BrightnessAbsolute", "ColorAbsolute"}

\* C19: execute on an existing device/node answers Error /
\* actionNotAvailable without a controller.set call exactly when the node
\* has no matching property for the command, and otherwise makes exactly
\* one controller.set call on the matching property of that node
C19_ActionNotAvailable ==
    SinglePair =>
        LET a == TheCommand.devices[1]
            cmd == TheCommand.execution[1]
            none == NoMatch(PropertiesAt(a), cmd)
        IN /\ Len(Results) = 1
           /\ (Results[1].status = "Error"
               /\ Results[1].error_code = Some("actionNotAvailable")) <=> none
           /\ none => writes = <<>>
           /\ ~none =>
                /\ Len(writes) = 1
                /\ writes[1].property_id = PropertyOf(cmd)
                /\ Address(writes[1].device_id, writes[1].node_id) = a

C19_Witness ==
    /\ SinglePair
    /\ TheCommand.execution[1].command = "ColorAbsolute"
    /\ Len(writes) = 1 /\ writes[1].value = <<240, 28, 100>>
    /\ Results[1].status = "Pending"

\* C20: the id of every sync descriptor is device_id "/" node_id of the
\* node it describes, the state report of that node carries the same
\* string, and the fulfillment lookup resolves the string to that device
\* and node
C20_SameAddress ==
    SyncDone =>
        \A desc \in response[1].devices :
            \E d \in DOMAIN fdevices :
                \E n \in DOMAIN fdevices[d].nodes :
                    /\ desc.id = Address(d, n)
                    /\ desc = homie_node_to_google_home(
                                  fdevices[d], fdevices[d].nodes[n])[1]
                    /\ node_state_changed(fdevices, d, n)[1].device_id
                         = desc.id
                    /\ get_homie_device_by_id(fdevices, desc.id)
                         = Some(<<fdevices[d], fdevices[d].nodes[n]>>)

C20_Witness == SyncDone /\ Cardinality(response[1].devices) = 2

\* ------------------------------------------------------------------- C21
\* the properties of node d1/n1 and the descriptors a SYNC returned for it
SyncKeys == DOMAIN fdevices[D1].nodes[N1].properties
SyncDescriptors ==
    {x \in response[1].devices : x.id = D1 \o <<"/">> \o N1}
TraitSet(x) == {x.traits[i] : i \in DOMAIN x.traits}
SyncOfReachable == SyncDone /\ fdevices[D1].state \in {"ready", "sleeping"}

\* C21: the capabilities of a node accumulate over the rule table and the
\* last matching rule decides the type: `on` and `brightness` alone give a
\* Light with OnOff and Brightness; `on` and an RGB `color` give a Light
\* with OnOff and ColorSetting and color model rgb; `temperature` gives a
\* Thermostat, whatever type came before, with TemperatureSetting, modes
\* ["off"], unit C and query-only true; a node without any recognized
\* property gets no descriptor
C21_CapabilitySynthesis ==
    SyncOfReachable =>
        /\ SyncKeys = {"on", "brightness"} =>
               /\ SyncDescriptors # {}
               /\ \A x \in SyncDescriptors :
                      /\ x.device_type = "Light"
                      /\ x.traits = <<"OnOff", "Brightness">>
        /\ (/\ SyncKeys = {"on", "color"}
            /\ fdevices[D1].nodes[N1].properties["color"].format
                   = Some("rgb")) =>
               /\ SyncDescriptors # {}
               /\ \A x \in SyncDescriptors :
                      /\ x.device_type = "Light"
                      /\ x.traits = <<"OnOff", "ColorSetting">>
                      /\ x.attributes.color_model = Some("rgb")
        /\ "temperature" \in SyncKeys =>
               /\ SyncDescriptors # {}
               /\ \A x \in SyncDescriptors :
                      /\ x.device_type = "Thermostat"
                      /\ "TemperatureSetting" \in TraitSet(x)
                      /\ x.attributes.available_thermostat_modes
                             = Some(<<"off">>)
                      /\ x.attributes.thermostat_temperature_unit
                             = Some("C")
                      /\ x.attributes.query_only_temperature_setting
                             = Some(TRUE)
        /\ SyncKeys \cap {"on", "brightness", "color", "temperature"} = {}
               => SyncDescriptors = {}
        /\ \A x \in SyncDescriptors :
               /\ "on" \in SyncKeys => "OnOff" \in TraitSet(x)
               /\ "brightness" \in SyncKeys => "Brightness" \in TraitSet(x)

\* a SYNC answered for a node with `on` and `temperature`: the Thermostat
\* rule came after the Switch rule
C21_Witness ==
    /\ SyncOfReachable
    /\ SyncKeys = {"on", "temperature"}
    /\ \E x \in SyncDescriptors :
           x.device_type = "Thermostat"
               /\ x.traits = <<"OnOff", "TemperatureSetting">>

\* ------------------------------------------------------------------- C28
\* node d1/n1 has a property that assigns a device type: `on`, a `color`
\* whose format is rgb or hsv, or `temperature`
TypeAssigned ==
    \/ "on" \in SyncKeys
    \/ /\ "color" \in SyncKeys
       /\ fdevices[D1].nodes[N1].properties["color"].format
              \in {Some("rgb"), Some("hsv")}
    \/ "temperature" \in SyncKeys

MatchingOnD1 ==
    /\ SinglePair
    /\ TheCommand.devices[1] = Address(D1, N1)
    /\ ~NoMatch(PropertiesAt(Address(D1, N1)), TheCommand.execution[1])

\* C29: execute does not look at the reachability of the device: for a
\* node of a device in any state, Lost and Disconnected included, a command
\* with a matching property makes the controller.set call and is answered
\* Pending when the write succeeds and Error / transientError when it fails
C29_ExecuteAnyState ==
    MatchingOnD1 =>
        /\ Len(writes) = 1
        /\ Address(writes[1].device_id, writes[1].node_id) = Address(D1, N1)
        /\ Len(Results) = 1
        /\ request[1].ok =>
               Results[1].status = "Pending" /\ Results[1].error_code = None
        /\ ~request[1].ok =>
               /\ Results[1].status = "Error"
               /\ Results[1].error_code = Some("transientError")

\* a brightness command written to a node of a Lost device and answered
\* Pending
C29_Witness ==
    /\ MatchingOnD1
    /\ fdevices[D1].state = "lost"
    /\ TheCommand.execution[1].command = "BrightnessAbsolute"
    /\ Len(writes) = 1 /\ writes[1].value = 15
    /\ Results[1].status = "Pending"

\* a command for a node of a Disconnected device whose write failed
C29_WitnessDisconnected ==
    /\ MatchingOnD1
    /\ fdevices[D1].state = "disconnected"
    /\ Len(writes) = 1
    /\ Results[1].error_code = Some("transientError")

\* ------------------------------------------------------------------- C30
\* the device or command list of the response to the request is empty
ResponseListEmpty ==
    IF request[1].intent = "execute" THEN Len(response[1].commands) = 0
    ELSE IF request[1].intent = "query"
    THEN DOMAIN response[1].devices = {}
    ELSE response[1].devices = {}

\* C30: for a user without controller SYNC, QUERY and EXECUTE each answer
\* with a payload that carries the error code authFailure and an empty
\* device or command list, and EXECUTE makes no controller.set call; for a
\* user with a controller the payload carries no error code
C30_NoControllerAuthFailure ==
    request # None =>
        /\ response # None
        /\ ~hasController =>
               /\ response[1].error_code = Some("authFailure")
               /\ ResponseListEmpty
               /\ writes = <<>>
        /\ hasController => response[1].error_code = None

\* an EXECUTE with devices and executions for a user without controller
C30_Witness ==
    /\ ~hasController
    /\ request # None /\ request[1].intent = "execute"
    /\ Len(request[1].commands[1].devices) = 2
    /\ Len(request[1].commands[1].execution) = 2
    /\ response[1].error_code = Some("authFailure")
    /\ response[1].commands = <<>>
    /\ writes = <<>>

\* ------------------------------------------------------------------- C22
\* the device of the state report in flight is reachable
ReportedDeviceReachable ==
    devices[lastFresh[1][1]].state \in {"ready", "sleeping"}

C22_WitnessSleeping ==
    /\ ppc = "reporting" /\ report # None
    /\ devices[lastFresh[1][1]].state = "sleeping"
    /\ report[1].state["online"] = TRUE

\* ------------------------------------------------------------------- C23
\* the conversion called last, and the property it was called with
LastOp == ccall[1].op
TheProperty == cproperty[1]

\* the call cannot convert: a property that is not a color for a color
\* conversion, a color command of the other format, a property that is not
\* a number or lacks its range for a numeric conversion
Unconvertible ==
    \/ /\ LastOp \in {"property_value_to_color",
                       "color_absolute_to_property_value"}
       /\ ~(TheProperty.datatype = "color"
            /\ TheProperty.format \in {Some("rgb"), Some("hsv")})
    \/ /\ LastOp = "color_absolute_to_property_value"
       /\ TheProperty.datatype = "color"
       /\ TheProperty.format # Some(ccall[1].arg[1].kind)
    \/ /\ LastOp \in {"property_value_to_percentage",
                       "percentage_to_property_value",
                       "property_value_to_number"}
       /\ TheProperty.datatype # "integer"
    \/ /\ LastOp \in {"property_value_to_percentage",
                       "percentage_to_property_value"}
       /\ TheProperty.datatype = "integer"
       /\ TheProperty.format = None

\* C23: every conversion of the codec returns, and returns "no value" when
\* it cannot convert, for every property and input: no call raises or
\* aborts, a range with min = max included
C23_ConversionsTotal ==
    ccall # None =>
        /\ ~cresult.panicked
        /\ Unconvertible => cresult.value = None

\* ------------------------------------------------------------------- C24
\* a / b for b > 0, truncating toward zero
Truncated(a, b) == IF a >= 0 THEN a \div b ELSE -((-a) \div b)
Clamped(q) == IF q < 0 THEN 0 ELSE IF q > 100 THEN 100 ELSE q

\* the last call was toPercentage on an Integer property with a value and
\* a range min < max
PercentageOfRanged ==
    /\ ccall # None /\ LastOp = "property_value_to_percentage"
    /\ TheProperty.datatype = "integer"
    /\ TheProperty.value # None /\ TheProperty.format # None
    /\ TheProperty.format[1][1] < TheProperty.format[1][2]

\* C24: toPercentage never returns a value outside 0..100, and for an
\* Integer property with range [min, max] and value v, below min and above
\* max included, it returns (v - min) * 100 / (max - min) in truncating
\* integer arithmetic, clamped to 0..100
C24_PercentageClamped ==
    /\ (ccall # None /\ LastOp = "property_value_to_percentage"
            /\ cresult.value # None) => cresult.value[1] \in 0..100
    /\ PercentageOfRanged =>
           LET v == TheProperty.value[1]
               lo == TheProperty.format[1][1]
               hi == TheProperty.format[1][2]
           IN cresult.value
                  = Some(Clamped(Truncated((v - lo) * 100, hi - lo)))

\* value 13 in range 10:20 gave 30
C24_Witness ==
    /\ PercentageOfRanged
    /\ TheProperty.format = Some(<<10, 20>>)
    /\ TheProperty.value = Some(13)
    /\ cresult.value = Some(30)

\* a value below min gave 0 and one above max gave 100
C24_WitnessBelow ==
    /\ PercentageOfRanged
    /\ TheProperty.value[1] < TheProperty.format[1][1]
    /\ cresult.value = Some(0)
C24_WitnessAbove ==
    /\ PercentageOfRanged
    /\ TheProperty.value[1] > TheProperty.format[1][2]
    /\ cresult.value = Some(100)

\* ------------------------------------------------------------------- C25
\* toPercentage of an Integer property with range min < max returned, and
\* the next call is fromPercentage of the same property with that
\* percentage
RoundTripPercentage ==
    /\ PercentageOfRanged
    /\ cresult.value # None
    /\ ccall' = Some([op |-> "percentage_to_property_value",
                      arg |-> cresult.value])

\* the distance of a and b
Distance(a, b) == IF a >= b THEN a - b ELSE b - a

\* the raw width of one percentage point of the range, rounded up, and at
\* least one unit of the raw value
RoundingUnit ==
    LET w == TheProperty.format[1][2] - TheProperty.format[1][1]
    IN IF w <= 100 THEN 1 ELSE (w + 99) \div 100

\* C25: for every Integer property with range [min, max] and value v,
\* fromPercentage(property, toPercentage(property)) lies within one
\* rounding unit of v
C25_RoundTripWithinUnit ==
    [][RoundTripPercentage =>
           /\ cresult'.value # None
           /\ Distance(cresult'.value[1], TheProperty.value[1])
                  <= RoundingUnit]_vars

\* C25 as the code has it: for min <= v <= max the round trip returns a
\* value from v - RoundingUnit to v, never above v; for v below min it
\* returns min and for v above max it returns max
C25_RoundTripInRange ==
    [][RoundTripPercentage =>
           LET v == TheProperty.value[1]
               lo == TheProperty.format[1][1]
               hi == TheProperty.format[1][2]
           IN /\ cresult'.value # None
              /\ (lo <= v /\ v <= hi) =>
                     /\ cresult'.value[1] <= v
                     /\ v - cresult'.value[1] <= RoundingUnit
              /\ v < lo => cresult'.value[1] = lo
              /\ v > hi => cresult'.value[1] = hi]_vars

\* value 1 in range 0:3 gave 33 percent, and 33 percent gave 0
C25_Witness ==
    /\ ccall # None /\ LastOp = "percentage_to_property_value"
    /\ ccall[1].arg = Some(33)
    /\ TheProperty.format = Some(<<0, 3>>)
    /\ TheProperty.value = Some(1)
    /\ cresult.value = Some(0)

\* ------------------------------------------------------------------- C26
\* toColor of the property returned a color, and the next call is
\* fromColor of the same property with that color
RoundTripColor ==
    /\ LastReturned("property_value_to_color")
    /\ ccall' = Some([op |-> "color_absolute_to_property_value",
                      arg |-> Some(color_as_command(cresult.value[1]))])

\* the worked conversions: "17,34,51" is 0x112233, 0x445566 is
\* "68,85,102", "280,50,60" is {280, 0.5, 0.6} and {290, 0.2, 0.3} is
\* "290,20,30"
ColorExamples ==
    /\ (LastReturned("property_value_to_color")
            /\ TheProperty.value = Some(<<17, 34, 51>>)) =>
           cresult.value = Some([spectrumRgb |-> 1122867])
    /\ (LastReturned("property_value_to_color")
            /\ TheProperty.value = Some(<<280, 50, 60>>)) =>
           cresult.value = Some([hue |-> 280, saturation |-> <<50, 100>>,
                                 value |-> <<60, 100>>])
    /\ (LastReturned("color_absolute_to_property_value")
            /\ ccall[1].arg[1].kind = "rgb"
            /\ ccall[1].arg[1].spectrum_rgb = 4478310) =>
           cresult.value = Some(<<68, 85, 102>>)
    /\ (LastReturned("color_absolute_to_property_value")
            /\ ccall[1].arg[1].kind = "hsv"
            /\ ccall[1].arg[1].hue = 290
            /\ ccall[1].arg[1].saturation = <<20, 100>>
            /\ ccall[1].arg[1].value = <<30, 100>>) =>
           cresult.value = Some(<<290, 20, 30>>)

\* C26: fromColor is the inverse of toColor: for an RGB property "r,g,b"
\* and for an HSV property "h,s,v" with h in 0..360 and s, v in 0..100,
\* fromColor of the color that toColor returned is the raw value again,
\* and the worked conversions come out as stated
C26_ColorRoundTrip ==
    /\ []ColorExamples
    /\ [][RoundTripColor => cresult'.value = TheProperty.value]_vars

\* ------------------------------------------------------------------- C27
\* an execute() call that no run has followed yet: notify_one stored the
\* permit or woke the waiter, and the loop has not passed notified() since
Unserved == permits > 0 \/ lpc = "notified"

\* C27: no signal is lost: while the RateLimiter is not dropped and the
\* action returns, every execute() call is eventually followed by a run
\* that starts after the call, whether the call came while the loop was
\* idle, while a run was in flight or during the sleep
C27_NoSignalLost ==
    /\ [][calls' > calls => Unserved']_vars
    /\ \A k \in 0..MaxCalls :
           (Unserved /\ runs = k /\ ~dropped) ~> (runs > k \/ dropped)

\* a call that came while a run was in flight has been followed by its
\* own run
C27_Witness ==
    /\ ~dropped
    /\ runs = 2 /\ calls = 2
    /\ lastWindowCalls = 1
    /\ ~Unserved

====
